---------------------------- MODULE Spec2Model ----------------------------
(***************************************************************************)
(* Model of stripe-tax-reporter:                                           *)
(*   report/generator.rs  ReportGenerator (process, sort, totals)          *)
(*   report/formatter.rs  format_as_tsv                                    *)
(*   report/quarter.rs    get_previous_quarter                             *)
(*   stripe/models.rs     InvoiceRecord                                    *)
(*   stripe/client.rs     StripeClient (list of paid invoices, lookups)    *)
(*   main.rs              main (fetch, loop over the invoices, report)     *)
(*                                                                         *)
(* Representation.                                                         *)
(*   String        a sequence of one-character strings; characters are     *)
(*                 ordered by their ASCII code (Rust compares Strings      *)
(*                 byte-wise), the alphabet is printable ASCII.            *)
(*   Option<T>     a sequence of length <= 1: None == <<>>, Some(v) ==     *)
(*                 <<v>>.                                                  *)
(*   Result<T>     <<"Ok", v>> or <<"Err", kind>>.                         *)
(*   i64 timestamp [days, secs] standing for days * 86400 + secs with      *)
(*                 0 <= secs < 86400 (the euclidean split chrono makes),   *)
(*                 so that timestamps outside chrono's range can be        *)
(*                 written with the 32-bit integers of the model checker.  *)
(*   i64 money     an integer; the inputs are bounded far inside the i64   *)
(*                 range, where Rust's + is exact.                         *)
(*   u32           [hi, lo], two 16-bit halves, value hi * 65536 + lo.     *)
(***************************************************************************)
EXTENDS Integers, Sequences, FiniteSets, TLC

VARIABLES
    records,          \* ReportGenerator.records : Vec<InvoiceRecord>
    overflow_checks,  \* build profile: TRUE = arithmetic overflow panics
    op,               \* the last operation called on the generator
    args,             \* the arguments of that call
    result,           \* what that call returned
    clock,            \* the wall clock: day number of Local::now().date_naive()
    today,            \* get_previous_quarter's local `today` (None before a call)
    pc,               \* where main is
    window,           \* main's start_timestamp and end_timestamp
    all_invoices,     \* fetch_paid_invoices' list, then main's `invoices`
    starting_after,   \* fetch_paid_invoices' cursor
    requests,         \* the list requests sent so far
    responses,        \* what came back for each of them
    next_invoice,     \* position of main's `for invoice in invoices`
    processed,        \* main's counter of records made
    skipped,          \* main's counter of invoices left out
    fetched,          \* how the lookups for the last invoice taken ended
    stdout,           \* what println! wrote
    stderr            \* what eprintln! wrote

\* The state of main and of the Stripe client.
program == <<pc, window, all_invoices, starting_after, requests, responses,
             next_invoice, processed, skipped, fetched, stdout, stderr>>

\* What the generator's methods never touch.
environment == <<clock, today, program>>

vars == <<records, overflow_checks, op, args, result, clock, today, program>>

----------------------------------------------------------------------------
(* Strings                                                                 *)

Ascii ==
    << " ", "!", "x22", "#", "$", "%", "&", "'", "x28", "x29", "x2A", "+", ",", "-", ".", "/",
       "0", "1", "2", "3", "4", "5", "6", "7", "8", "9", ":", ";", "<", "=", ">", "?",
       "@", "A", "B", "C", "D", "E", "F", "G", "H", "I", "J", "K", "L", "M", "N", "O",
       "P", "Q", "R", "S", "T", "U", "V", "W", "X", "Y", "Z", "[", "x5C", "]", "^", "_",
       "x60", "a", "b", "c", "d", "e", "f", "g", "h", "i", "j", "k", "l", "m", "n", "o",
       "p", "q", "r", "s", "t", "u", "v", "w", "x", "y", "z", "{", "|", "}", "~" >>

\* The entries "x22", "x28", "x29", "x2A", "x5C", "x60" stand for the double quote,
\* the parentheses, the asterisk, the backslash and the backtick.
OrdTable ==
    [c \in {Ascii[i] : i \in 1..Len(Ascii)} |-> 31 + (CHOOSE i \in 1..Len(Ascii) : Ascii[i] = c)]

Ord(c) == OrdTable[c]

Chr(n) == Ascii[n - 31]

\* The String of a literal: Str("TX") = <<"T", "X">>.
Str(s) == [i \in 1..Len(s) |-> SubSeq(s, i, i)]

None == <<>>

Some(v) == <<v>>

Less == "Less"

Equal == "Equal"

Greater == "Greater"

\* Ord for String: lexicographic on bytes, a proper prefix is smaller.
RECURSIVE str_cmp(_, _)
str_cmp(a, b) ==
    IF a = <<>> /\ b = <<>> THEN Equal
    ELSE IF a = <<>> THEN Less
    ELSE IF b = <<>> THEN Greater
    ELSE IF Ord(Head(a)) < Ord(Head(b)) THEN Less
    ELSE IF Ord(Head(a)) > Ord(Head(b)) THEN Greater
    ELSE str_cmp(Tail(a), Tail(b))

\* str::to_uppercase on the ASCII alphabet: a..z -> A..Z, the rest unchanged.
to_uppercase(s) ==
    [i \in 1..Len(s) |->
        IF Ord(s[i]) \in 97..122 THEN Chr(Ord(s[i]) - 32) ELSE s[i]]

----------------------------------------------------------------------------
(* Dates: chrono::DateTime::<Utc>::from_timestamp and format("%m/%d/%Y")   *)

SECS_PER_DAY == 86400

\* chrono's NaiveDate covers the years MIN_YEAR..MAX_YEAR.
MAX_YEAR == 262142

MIN_YEAR == -262143

\* A timestamp of `days` whole days and `secs` seconds since 1970-01-01T00:00:00Z.
Timestamp(days, secs) == [days |-> days, secs |-> secs]

\* The proleptic Gregorian date of day number `days` (days since 1970-01-01).
civil_from_days(days) ==
    LET z     == days + 719468
        era   == z \div 146097
        doe   == z - era * 146097
        yoe   == (doe - (doe \div 1460) + (doe \div 36524) - (doe \div 146096)) \div 365
        doy   == doe - (365 * yoe + (yoe \div 4) - (yoe \div 100))
        mp    == (5 * doy + 2) \div 153
        day   == doy - ((153 * mp + 2) \div 5) + 1
        month == IF mp < 10 THEN mp + 3 ELSE mp - 9
        year  == yoe + era * 400 + (IF month <= 2 THEN 1 ELSE 0)
    IN  [year |-> year, month |-> month, day |-> day]

\* from_timestamp(secs, 0): None when the day is outside NaiveDate's range.
from_timestamp(ts) ==
    LET date == civil_from_days(ts.days)
    IN  IF ts.secs \in 0..(SECS_PER_DAY - 1) /\ date.year \in MIN_YEAR..MAX_YEAR
        THEN Some(date)
        ELSE None

RECURSIVE Digits(_)
Digits(n) == IF n < 10 THEN <<Chr(48 + n)>> ELSE Digits(n \div 10) \o <<Chr(48 + (n % 10))>>

RECURSIVE ZeroPad(_, _)
ZeroPad(s, width) == IF Len(s) >= width THEN s ELSE ZeroPad(<<"0">> \o s, width)

\* %Y: four digits, zero padded; a sign in front of years outside 0..9999.
format_year(y) ==
    IF y \in 0..9999 THEN ZeroPad(Digits(y), 4)
    ELSE IF y > 9999 THEN <<"+">> \o Digits(y)
    ELSE <<"-">> \o ZeroPad(Digits(-y), 4)

\* format("%m/%d/%Y")
format_mdy(date) ==
    ZeroPad(Digits(date.month), 2) \o <<"/">> \o ZeroPad(Digits(date.day), 2)
        \o <<"/">> \o format_year(date.year)

Ok(v) == <<"Ok", v>>

Err(kind) == <<"Err", kind>>

IsOk(r) == r[1] = "Ok"

IsErr(r) == r[1] = "Err"

\* Err: "Invalid timestamp: {}"
format_invoice_date(timestamp) ==
    LET datetime == from_timestamp(timestamp)
    IN  IF datetime = None THEN Err("InvalidTimestamp")
        ELSE Ok(format_mdy(datetime[1]))

----------------------------------------------------------------------------
(* Field extraction (generator.rs)                                         *)

\* serde_json::Value of invoice.customer
JsonNull == <<"Null">>

JsonString(s) == <<"String", s>>

\* An object with optional string members "id" and "name".
JsonObject(id, name) == <<"Object", id, name>>

\* The name with an embedded object's "name" tried before its "id".
extract_customer_name_object_name_first(invoice) ==
    IF invoice.customer_name # None /\ invoice.customer_name[1] # <<>>
    THEN Ok(invoice.customer_name[1])
    ELSE LET c == invoice.customer
         IN  IF c[1] = "String" /\ c[2] # <<>> THEN Ok(c[2])
             ELSE IF c[1] = "Object"
             THEN IF c[3] # None THEN Ok(c[3][1])
                  ELSE IF c[2] # None THEN Ok(c[2][1])
                  ELSE Err("MissingCustomerIdentity")
             ELSE Err("MissingCustomerIdentity")

\* Err: "Invoice {}: Customer object has no name or ID" /
\*      "Invoice {} has no customer name or ID"
extract_customer_name(invoice) ==
    IF invoice.customer_name # None /\ invoice.customer_name[1] # <<>>
    THEN Ok(invoice.customer_name[1])
    ELSE LET c == invoice.customer
         IN  IF c[1] = "String" /\ c[2] # <<>> THEN Ok(c[2])
             ELSE IF c[1] = "Object"
             THEN IF c[2] # None THEN Ok(c[2][1])
                  ELSE IF c[3] # None THEN Ok(c[3][1])
                  ELSE Err("MissingCustomerIdentity")
             ELSE Err("MissingCustomerIdentity")

\* if let Some(address) = ..; if let Some(state) = &address.state; if !state.is_empty()
address_state(address) ==
    IF address # None /\ address[1].state # None /\ address[1].state[1] # <<>>
    THEN Some(address[1].state[1])
    ELSE None

\* The fallback with the charge's billing address tried before the customer's.
extract_state_charge_first(customer, charge, invoice) ==
    LET from_customer ==
            IF customer # None THEN address_state(customer[1].address) ELSE None
        from_charge ==
            IF charge # None /\ charge[1].billing_details # None
            THEN address_state(charge[1].billing_details[1].address)
            ELSE None
        from_invoice == address_state(invoice.customer_address)
    IN  IF from_charge # None THEN Ok(to_uppercase(from_charge[1]))
        ELSE IF from_customer # None THEN Ok(to_uppercase(from_customer[1]))
        ELSE IF from_invoice # None THEN Ok(to_uppercase(from_invoice[1]))
        ELSE Err("MissingBillingState")

\* Err: "Invoice {}: No state found in customer address, credit card billing
\*       address, or invoice address (strict validation required)"
extract_state_with_fallbacks(customer, charge, invoice) ==
    LET from_customer ==
            IF customer # None THEN address_state(customer[1].address) ELSE None
        from_charge ==
            IF charge # None /\ charge[1].billing_details # None
            THEN address_state(charge[1].billing_details[1].address)
            ELSE None
        from_invoice == address_state(invoice.customer_address)
    IN  IF from_customer # None THEN Ok(to_uppercase(from_customer[1]))
        ELSE IF from_charge # None THEN Ok(to_uppercase(from_charge[1]))
        ELSE IF from_invoice # None THEN Ok(to_uppercase(from_invoice[1]))
        ELSE Err("MissingBillingState")

\* u32 arithmetic on [hi, lo]
U16 == 65536

U32(hi, lo) == [hi |-> hi, lo |-> lo]

\* `q as u32` for an i32 q: q itself when q >= 0, 2^32 + q when q < 0.
as_u32(q) ==
    IF q >= 0 THEN U32(q \div U16, q % U16)
    ELSE LET k == -(q + 1)
         IN  U32((U16 - 1) - (k \div U16), (U16 - 1) - (k % U16))

\* a + b on u32: the wrapped sum and whether it overflowed.
add_u32(a, b) ==
    LET lo == a.lo + b.lo
        hi == a.hi + b.hi + (lo \div U16)
    IN  [value |-> U32(hi % U16, lo % U16), overflow |-> hi >= U16]

\* The filter that lets every line through.
is_any_line(line) == line.line_type = line.line_type

is_subscription(line) == line.line_type = "subscription"

\* .filter(subscription).map(quantity.unwrap_or(0) as u32).sum::<u32>()
\* The result is <<"Ok", sum>>, or <<"Panic">> when the sum overflows in a build
\* with overflow checks; without them the sum wraps.
RECURSIVE sum_quantities_from(_, _, _)
sum_quantities_from(lines, acc, checks) ==
    IF lines = <<>> THEN Ok(acc)
    ELSE IF ~is_subscription(Head(lines)) THEN sum_quantities_from(Tail(lines), acc, checks)
    ELSE LET q == IF Head(lines).quantity = None THEN 0 ELSE Head(lines).quantity[1]
             s == add_u32(acc, as_u32(q))
         IN  IF s.overflow /\ checks THEN <<"Panic">>
             ELSE sum_quantities_from(Tail(lines), s.value, checks)

sum_subscription_quantities(invoice, checks) ==
    sum_quantities_from(invoice.lines, U32(0, 0), checks)

\* .filter(subscription).map(amount).sum::<i64>()
RECURSIVE sum_amounts_from(_, _)
sum_amounts_from(lines, acc) ==
    IF lines = <<>> THEN acc
    ELSE sum_amounts_from(Tail(lines),
                          IF is_subscription(Head(lines)) THEN acc + Head(lines).amount ELSE acc)

sum_license_amounts(invoice) == sum_amounts_from(invoice.lines, 0)

\* The total taken from the licenses alone.
invoice_total_without_tax(licenses, tax) == licenses

\* let total = licenses + tax;
invoice_total(licenses, tax) == licenses + tax

InvoiceRecord(date, customer, users, state, licenses, tax, total, fees) ==
    [date |-> date, customer |-> customer, users |-> users, state |-> state,
     licenses |-> licenses, tax |-> tax, total |-> total, fees |-> fees]

\* The body of process_invoice_with_customer up to the push: the record, the
\* error of the first `?` that fails, or a panic.
extract_record(invoice, customer, charge, balance_transaction, checks) ==
    LET date   == format_invoice_date(
                      IF invoice.paid_at # None THEN invoice.paid_at[1] ELSE invoice.created)
        name   == extract_customer_name(invoice)
        state  == extract_state_with_fallbacks(customer, charge, invoice)
        users  == sum_subscription_quantities(invoice, checks)
        licenses == sum_license_amounts(invoice)
        tax    == IF invoice.tax # None THEN invoice.tax[1] ELSE 0
        total  == invoice_total(licenses, tax)
        fees   == IF balance_transaction # None THEN balance_transaction[1].fee ELSE 0
    IN  IF IsErr(date) THEN date
        ELSE IF IsErr(name) THEN name
        ELSE IF IsErr(state) THEN state
        ELSE IF users[1] = "Panic" THEN users
        ELSE Ok(InvoiceRecord(date[2], name[2], users[2], state[2],
                              licenses, tax, total, fees))

----------------------------------------------------------------------------
(* Aggregation (generator.rs)                                              *)

\* The comparator of sort_records: state, then date, then customer, each as String.
record_cmp(a, b) ==
    LET by_state == str_cmp(a.state, b.state)
        by_date  == str_cmp(a.date, b.date)
    IN  IF by_state # Equal THEN by_state
        ELSE IF by_date # Equal THEN by_date
        ELSE str_cmp(a.customer, b.customer)

\* slice::sort_by is a stable sort: `r` goes behind every element that does not
\* compare Greater than it.
RECURSIVE insert_sorted(_, _)
insert_sorted(sorted, r) ==
    IF sorted = <<>> THEN <<r>>
    ELSE IF record_cmp(Head(sorted), r) = Greater THEN <<r>> \o sorted
    ELSE <<Head(sorted)>> \o insert_sorted(Tail(sorted), r)

RECURSIVE sort_by(_, _)
sort_by(recs, sorted) ==
    IF recs = <<>> THEN sorted
    ELSE sort_by(Tail(recs), insert_sorted(sorted, Head(recs)))

sorted_records(recs) == sort_by(recs, <<>>)

Totals(licenses, tax, total, fees) ==
    [licenses |-> licenses, tax |-> tax, total |-> total, fees |-> fees]

\* for record in recs { total_x += record.x }
RECURSIVE accumulate(_, _)
accumulate(recs, acc) ==
    IF recs = <<>> THEN acc
    ELSE accumulate(Tail(recs),
                    Totals(acc.licenses + Head(recs).licenses, acc.tax + Head(recs).tax,
                           acc.total + Head(recs).total, acc.fees + Head(recs).fees))

totals_of(recs) == accumulate(recs, Totals(0, 0, 0, 0))

----------------------------------------------------------------------------
(* Formatting (formatter.rs, models.rs)                                    *)
(* The output text is a sequence of lines, a line a sequence of            *)
(* tab-separated fields, a field a String.                                 *)

\* The amount printed with "{}" in place of "{:.2}": no digits after the point
\* when the cents are zero.
dollars_unpadded(cents) ==
    LET abs == IF cents < 0 THEN -cents ELSE cents
    IN  (IF cents < 0 THEN <<"-">> ELSE <<>>) \o Digits(abs \div 100)
            \o (IF abs % 100 = 0 THEN <<>> ELSE <<".">> \o ZeroPad(Digits(abs % 100), 2))

\* format!("{:.2}", cents as f64 / 100.0)
dollars(cents) ==
    LET abs == IF cents < 0 THEN -cents ELSE cents
    IN  (IF cents < 0 THEN <<"-">> ELSE <<>>)
            \o Digits(abs \div 100) \o <<".">> \o ZeroPad(Digits(abs % 100), 2)

\* format!("{}", users) for a u32
RECURSIVE u32_digits(_)
u32_digits(u) ==
    LET t == (u.hi % 10) * U16 + u.lo
        q == U32(u.hi \div 10, t \div 10)
    IN  IF u.hi = 0 /\ u.lo < 10 THEN <<Chr(48 + u.lo)>>
        ELSE u32_digits(q) \o <<Chr(48 + (t % 10))>>

\* grouped.entry(record.state).or_insert_with(Vec::new).push(record), for each record
RECURSIVE group_from(_, _)
group_from(recs, grouped) ==
    IF recs = <<>> THEN grouped
    ELSE LET r == Head(recs)
             k == r.state
         IN  group_from(Tail(recs),
                 IF k \in DOMAIN grouped
                 THEN [grouped EXCEPT ![k] = Append(@, r)]
                 ELSE [x \in DOMAIN grouped \cup {k} |->
                          IF x = k THEN <<r>> ELSE grouped[x]])

group_by_state(recs) == group_from(recs, [x \in {} |-> <<>>])

\* The keys in descending order (the comparison reversed).
RECURSIVE btree_keys_descending(_)
btree_keys_descending(keys) ==
    IF keys = {} THEN <<>>
    ELSE LET greatest == CHOOSE k \in keys : \A o \in keys : str_cmp(k, o) # Less
         IN  <<greatest>> \o btree_keys_descending(keys \ {greatest})

\* The keys of a BTreeMap<String, _> in iteration order: ascending by String's Ord.
RECURSIVE btree_keys(_)
btree_keys(keys) ==
    IF keys = {} THEN <<>>
    ELSE LET least == CHOOSE k \in keys : \A o \in keys : str_cmp(k, o) # Greater
         IN  <<least>> \o btree_keys(keys \ {least})

header_line(state) == << Str("===== ") \o state \o Str(" =====") >>

columns_line ==
    << Str("Date"), Str("Customer"), Str("Users"), Str("Licenses"),
       Str("Tax"), Str("Total"), Str("Fees") >>

row_line(r) ==
    << r.date, r.customer, u32_digits(r.users),
       dollars(r.licenses), dollars(r.tax), dollars(r.total), dollars(r.fees) >>

sum_line(label, t) ==
    << Str(label), <<>>, <<>>,
       dollars(t.licenses), dollars(t.tax), dollars(t.total), dollars(t.fees) >>

blank_line == << <<>> >>

RECURSIVE row_lines(_)
row_lines(recs) ==
    IF recs = <<>> THEN <<>> ELSE <<row_line(Head(recs))>> \o row_lines(Tail(recs))

\* The subtotals with the first record of the section left out.
state_subtotals_skipping_first(state_records) ==
    accumulate(IF state_records = <<>> THEN <<>> ELSE Tail(state_records), Totals(0, 0, 0, 0))

\* The subtotals of one state section: the sums over state_records.
state_subtotals(state_records) == accumulate(state_records, Totals(0, 0, 0, 0))

\* The assignment `=` in place of `+=`: the grand totals keep the last section only.
add_to_grand_overwriting(grand, sub) == sub

\* grand_x += state_x, for the four fields
add_to_grand(grand, sub) ==
    Totals(grand.licenses + sub.licenses, grand.tax + sub.tax,
           grand.total + sub.total, grand.fees + sub.fees)

\* One pass of `for (state, state_records) in &grouped`: the section's lines.
section_lines(state, state_records) ==
    <<header_line(state), columns_line>> \o row_lines(state_records)
        \o <<sum_line("Subtotal", state_subtotals(state_records)), blank_line>>

\* The loop over the sections: the text so far and the grand totals so far.
RECURSIVE sections_from(_, _, _, _)
sections_from(keys, grouped, output, grand) ==
    IF keys = <<>> THEN [output |-> output, grand |-> grand]
    ELSE LET state == Head(keys)
             sub   == state_subtotals(grouped[state])
         IN  sections_from(Tail(keys), grouped,
                 output \o section_lines(state, grouped[state]),
                 add_to_grand(grand, sub))

format_as_tsv(recs) ==
    LET grouped == group_by_state(recs)
        done    == sections_from(btree_keys(DOMAIN grouped), grouped, <<>>, Totals(0, 0, 0, 0))
    IN  done.output \o <<sum_line("GRAND TOTAL", done.grand)>>

----------------------------------------------------------------------------
(* The previous fiscal quarter                                             *)

\* NaiveDate::from_ymd_opt(y, m, d).unwrap() as a day number since 1970-01-01.
days_from_civil(y, m, d) ==
    LET yy  == IF m <= 2 THEN y - 1 ELSE y
        era == yy \div 400
        yoe == yy - era * 400
        mp  == IF m > 2 THEN m - 3 ELSE m + 9
        doy == ((153 * mp + 2) \div 5) + d - 1
        doe == yoe * 365 + (yoe \div 4) - (yoe \div 100) + doy
    IN  era * 146097 + doe - 719468

\* The quarter before the current one, without the step back to the year before.
previous_quarter_same_year(date) ==
    LET current_quarter == ((date.month - 1) \div 3) + 1
        prev_quarter    == IF current_quarter = 1 THEN 4 ELSE current_quarter - 1
        start_month     == (prev_quarter - 1) * 3 + 1
        end_month       == prev_quarter * 3
        end_day == IF end_month = 12
                   THEN days_from_civil(date.year + 1, 1, 1) - 1
                   ELSE days_from_civil(date.year, end_month + 1, 1) - 1
    IN  [start_date |-> [year |-> date.year, month |-> start_month, day |-> 1],
         end_date |-> civil_from_days(end_day),
         quarter |-> prev_quarter, year |-> date.year]

\* The body of get_previous_quarter once `today` has been read from the clock.
previous_quarter(date) ==
    LET current_month   == date.month
        current_year    == date.year
        current_quarter == ((current_month - 1) \div 3) + 1
        prev == IF current_quarter = 1
                THEN [quarter |-> 4, year |-> current_year - 1]
                ELSE [quarter |-> current_quarter - 1, year |-> current_year]
        start_month == (prev.quarter - 1) * 3 + 1
        end_month   == prev.quarter * 3
        start_date  == civil_from_days(days_from_civil(prev.year, start_month, 1))
        end_day == IF end_month = 12
                   THEN days_from_civil(prev.year + 1, 1, 1) - 1
                   ELSE days_from_civil(prev.year, end_month + 1, 1) - 1
    IN  [start_date |-> start_date, end_date |-> civil_from_days(end_day),
         quarter |-> prev.quarter, year |-> prev.year]

----------------------------------------------------------------------------
(* The ReportGenerator as a state machine                                  *)

\* The most records a run of the model collects.
MaxRecords == 3

\* A panic aborts the run: nothing is called on the generator afterwards.
Panicked == op = "process_invoice_with_customer" /\ result[1] = "Panic"

\* The push made before the fields are validated: a failed extraction leaves a
\* record without its fields behind.
records_after_unvalidated(recs, extracted) ==
    Append(recs, IF IsOk(extracted) THEN extracted[2]
                 ELSE InvoiceRecord(<<>>, <<>>, U32(0, 0), <<>>, 0, 0, 0, 0))

\* self.records after the call: the record is pushed only when every `?` passed.
records_after(recs, extracted) ==
    IF IsOk(extracted) THEN Append(recs, extracted[2]) ELSE recs

process_invoice_with_customer(invoice, customer, charge, balance_transaction) ==
    /\ ~Panicked
    /\ Len(records) < MaxRecords
    /\ LET extracted == extract_record(invoice, customer, charge, balance_transaction,
                                       overflow_checks)
       IN  /\ records' = records_after(records, extracted)
           /\ result' = IF IsOk(extracted) THEN Ok(<<>>) ELSE extracted
    /\ op' = "process_invoice_with_customer"
    /\ args' = <<invoice, customer, charge, balance_transaction>>
    /\ UNCHANGED <<overflow_checks, environment>>

sort_records ==
    /\ ~Panicked
    /\ records' = sorted_records(records)
    /\ op' = "sort_records"
    /\ args' = <<>>
    /\ result' = <<>>
    /\ UNCHANGED <<overflow_checks, environment>>

calculate_totals ==
    /\ ~Panicked
    /\ op' = "calculate_totals"
    /\ args' = <<>>
    /\ result' = totals_of(records)
    /\ UNCHANGED <<records, overflow_checks, environment>>

\* format_as_tsv(generator.get_records())
format_records ==
    /\ ~Panicked
    /\ op' = "format_as_tsv"
    /\ args' = <<>>
    /\ result' = format_as_tsv(records)
    /\ UNCHANGED <<records, overflow_checks, environment>>

\* let today = Local::now().date_naive(), then the rest of get_previous_quarter.
\* The function takes no argument.
get_previous_quarter ==
    /\ today' = Some(civil_from_days(clock))
    /\ op' = "get_previous_quarter"
    /\ args' = <<>>
    /\ result' = previous_quarter(civil_from_days(clock))
    /\ UNCHANGED <<records, overflow_checks, clock, program>>

\* The last day the model's clock reaches.
LastDay == 20900

\* A day passes.
Tick ==
    /\ clock < LastDay
    /\ clock' = clock + 1
    /\ UNCHANGED <<records, overflow_checks, op, args, result, today, program>>

\* The day the program is started on.
StartDay == days_from_civil(2026, 1, 2)

\* ReportGenerator::new(), in a build with or without overflow checks.
Init ==
    /\ records = <<>>
    /\ overflow_checks \in BOOLEAN
    /\ op = "new"
    /\ args = <<>>
    /\ result = <<>>
    /\ clock = StartDay
    /\ today = None
    /\ pc = "start"
    /\ window = None
    /\ all_invoices = <<>>
    /\ starting_after = None
    /\ requests = <<>>
    /\ responses = <<>>
    /\ next_invoice = 1
    /\ processed = 0
    /\ skipped = 0
    /\ fetched = None
    /\ stdout = <<>>
    /\ stderr = <<>>

----------------------------------------------------------------------------
(* Inputs                                                                  *)

Address(state) == [state |-> state]

Customer(address) == [address |-> address]

Charge(billing_details) == [billing_details |-> billing_details]

BillingDetails(address) == [address |-> address]

BalanceTransaction(fee) == [fee |-> fee]

LineItem(line_type, amount, quantity) ==
    [line_type |-> line_type, amount |-> amount, quantity |-> quantity]

StripeInvoice(customer, customer_name, customer_address, created, paid_at, tax, lines) ==
    [customer |-> customer, customer_name |-> customer_name,
     customer_address |-> customer_address, created |-> created,
     paid_at |-> paid_at, tax |-> tax, lines |-> lines]

\* 2025-10-15, 2025-12-15 and 2026-01-15, at noon UTC; a day beyond chrono's range.
Oct15 == Timestamp(20376, 43200)

Dec15 == Timestamp(20437, 43200)

Jan15 == Timestamp(20468, 43200)

OutOfRange == Timestamp(100000000, 0)

CustomerIn(state) == Some(Customer(Some(Address(Some(Str(state))))))

ChargeIn(state) == Some(Charge(Some(BillingDetails(Some(Address(Some(Str(state))))))))

Subscription(amount, quantity) == LineItem("subscription", amount, quantity)

\* Two subscription lines, tax and a fee (scenario 1 of the specification).
TwoSeats == <<Subscription(20000, Some(3)), Subscription(10000, Some(2))>>

\* A subscription credit and a one-off item.
Credit == <<Subscription(-500, None), LineItem("invoiceitem", 700, Some(1))>>

\* Two subscription lines whose quantities are negative.
NegativeSeats == <<Subscription(100, Some(-1)), Subscription(100, Some(-1))>>

PaidInvoice(name, paid_at, tax, lines) ==
    StripeInvoice(JsonString(Str("cus_1")), Some(Str(name)), None, Oct15, paid_at, tax, lines)

\* <<lines, tax, balance transaction>>
MoneyCases ==
    { <<TwoSeats, Some(4000), Some(BalanceTransaction(900))>>,
      <<Credit, None, None>>,
      <<<<>>, Some(-3), Some(BalanceTransaction(-2))>> }

\* Calls whose extraction succeeds: every money case in two states, and an invoice
\* of a third state that carries its own address.
GoodCalls ==
    { <<PaidInvoice("Acme", Some(Dec15), m[2], m[1]), st[1], st[2], m[3]>> :
        m \in MoneyCases, st \in { <<CustomerIn("tx"), None>>, <<None, ChargeIn("ca")>> } }
    \cup { <<StripeInvoice(JsonString(Str("cus_1")), Some(Str("Acme")),
                           Some(Address(Some(Str("ny")))), Oct15, Some(Dec15), Some(4000),
                           TwoSeats), None, None, Some(BalanceTransaction(900))>> }

\* Calls that fail: no valid date, no customer identity, no billing state; and a
\* call whose quantities overflow a u32.
BadCalls ==
    { <<StripeInvoice(JsonString(Str("cus_1")), Some(Str("Acme")), None, OutOfRange, None,
                      Some(4000), TwoSeats), CustomerIn("tx"), None, None>>,
      <<StripeInvoice(JsonNull, Some(<<>>), None, Oct15, Some(Dec15), Some(4000), TwoSeats),
        CustomerIn("tx"), None, None>>,
      <<StripeInvoice(JsonObject(None, None), None, None, Oct15, Some(Dec15), Some(4000),
                      TwoSeats), CustomerIn("tx"), None, None>>,
      <<PaidInvoice("Acme", Some(Dec15), Some(4000), TwoSeats),
        Some(Customer(None)), Some(Charge(None)), None>>,
      <<PaidInvoice("Acme", Some(Dec15), None, NegativeSeats), CustomerIn("tx"), None, None>> }

Calls == GoodCalls \cup BadCalls

\* Every shape of the three state sources: absent at each level, empty, present.
CustomerShapes ==
    { None, Some(Customer(None)), Some(Customer(Some(Address(None)))),
      Some(Customer(Some(Address(Some(<<>>))))), CustomerIn("tx") }

ChargeShapes ==
    { None, Some(Charge(None)), Some(Charge(Some(BillingDetails(None)))),
      Some(Charge(Some(BillingDetails(Some(Address(None)))))),
      Some(Charge(Some(BillingDetails(Some(Address(Some(<<>>))))))), ChargeIn("Ca") }

InvoiceAddressShapes ==
    { None, Some(Address(None)), Some(Address(Some(<<>>))), Some(Address(Some(Str("Texas")))) }

StateCalls ==
    { <<StripeInvoice(JsonString(Str("cus_1")), Some(Str("Acme")), a, Oct15, Some(Dec15),
                      Some(4000), TwoSeats), cu, ch, None>> :
        cu \in CustomerShapes, ch \in ChargeShapes, a \in InvoiceAddressShapes }

\* Every shape of the denormalized name and of the customer reference.
CustomerNameShapes == { None, Some(<<>>), Some(Str("Acme")) }

CustomerReferenceShapes ==
    { JsonNull, JsonString(<<>>), JsonString(Str("cus_1")),
      JsonObject(None, None), JsonObject(Some(Str("cus_2")), None),
      JsonObject(None, Some(Str("Bob"))), JsonObject(Some(Str("cus_2")), Some(Str("Bob"))),
      JsonObject(Some(<<>>), Some(Str("Bob"))) }

NameCalls ==
    { <<StripeInvoice(ref, name, None, Oct15, Some(Dec15), Some(4000), TwoSeats),
        CustomerIn("tx"), None, None>> :
        name \in CustomerNameShapes, ref \in CustomerReferenceShapes }

\* The most line items of an invoice.
MaxLines == 3

\* Subscription lines with a quantity, without one, with a negative one and with
\* the largest i32; a line of another type.
LineShapes ==
    { Subscription(20000, Some(3)), Subscription(-500, None), Subscription(100, Some(-1)),
      Subscription(1, Some(2147483647)), LineItem("invoiceitem", 700, Some(1)) }

LineLists == UNION { [1..n -> LineShapes] : n \in 0..MaxLines }

LineCalls ==
    { <<PaidInvoice("Acme", Some(Dec15), tax, lines), CustomerIn("tx"), None, None>> :
        tax \in { None, Some(4000) }, lines \in LineLists }

\* Records that differ in state, date and customer, and two that differ in users only.
SortCalls ==
    { <<PaidInvoice(n, Some(d), Some(4000), <<Subscription(20000, Some(3))>>), CustomerIn(st),
        None, None>> : n \in {"Acme", "Bolt"}, d \in {Dec15, Jan15}, st \in {"tx", "ca"} }
    \cup { <<PaidInvoice("Acme", Some(Dec15), Some(4000), <<Subscription(20000, Some(5))>>),
             CustomerIn("tx"), None, None>> }

----------------------------------------------------------------------------
(* The program: main (main.rs) and StripeClient (client.rs)                *)

\* An invoice as the list endpoint returns it: the fields the extractor reads,
\* its id and its charge reference.
ListedInvoice(id, charge, invoice) == [id |-> id, charge |-> charge, invoice |-> invoice]

\* A charge as fetch_charge returns it: the billing details and the id of its
\* balance transaction.
FetchedCharge(balance_transaction, charge) ==
    [balance_transaction |-> balance_transaction, charge |-> charge]

\* The paid invoices the server holds, in the order it lists them: one that
\* carries its own address, one without a customer reference, one whose
\* quantities are negative, one whose date cannot be converted.
Listing ==
    << ListedInvoice(Str("in_1"), Some(JsonString(Str("ch_1"))),
                     StripeInvoice(JsonString(Str("cus_1")), Some(Str("Acme")),
                                   Some(Address(Some(Str("ny")))), Oct15, Some(Dec15),
                                   Some(4000), TwoSeats)),
       ListedInvoice(Str("in_2"), None,
                     StripeInvoice(JsonNull, Some(Str("Bob")), None, Oct15, Some(Dec15),
                                   None, TwoSeats)),
       ListedInvoice(Str("in_3"), None,
                     StripeInvoice(JsonObject(Some(Str("cus_2")), None), None, None, Oct15,
                                   Some(Dec15), None, NegativeSeats)),
       ListedInvoice(Str("in_4"), Some(JsonObject(Some(Str("ch_2")), None)),
                     StripeInvoice(JsonString(Str("cus_1")), Some(Str("Acme")), None,
                                   Oct15, Some(OutOfRange), Some(4000), TwoSeats)) >>

\* The most invoices of a page (limit=100 in the request).
PageLimit == 2

\* The most list requests of a run of the model.
MaxRequests == 3

NotLater(a, b) == a.days < b.days \/ (a.days = b.days /\ a.secs <= b.secs)

\* The invoices the server lists for created[gte] and created[lte].
ListedFor(request) ==
    SelectSeq(Listing, LAMBDA listed : /\ NotLater(request.created_gte, listed.invoice.created)
                                      /\ NotLater(listed.invoice.created, request.created_lte))

\* Where a listing continues after a cursor.
ListedAfter(listing, cursor) ==
    IF cursor = None THEN 0
    ELSE CHOOSE i \in 1..Len(listing) : listing[i].id = cursor[1]

\* A failed page as the end of the list: the invoices fetched so far are returned.
fetch_failed_returning_pages(kind, invoices) == Ok(invoices)

\* `?` on the send or the parse, bail! on a non-success status: the function
\* returns the error and drops the invoices fetched so far.
fetch_failed(kind, invoices) == Err(kind)

\* No lookup was made for the invoice.
NotFetched == [customer |-> "none", charge |-> "none", balance_transaction |-> "none"]

\* main up to the call of fetch_paid_invoices.
main_start ==
    /\ pc = "start"
    /\ \E api_key \in BOOLEAN :
          IF ~api_key
          THEN /\ pc' = "failed"
               /\ op' = "main"
               /\ args' = <<>>
               /\ result' = Err("MissingApiKey")
               /\ UNCHANGED <<today, window, stderr>>
          ELSE LET date == civil_from_days(clock)
                   q    == previous_quarter(date)
               IN  /\ today' = Some(date)
                   /\ op' = "get_previous_quarter"
                   /\ args' = <<>>
                   /\ result' = q
                   /\ window' = Some([start |-> Timestamp(days_from_civil(q.start_date.year,
                                            q.start_date.month, q.start_date.day), 0),
                                      end |-> Timestamp(days_from_civil(q.end_date.year,
                                            q.end_date.month, q.end_date.day),
                                            23 * 3600 + 59 * 60 + 59)])
                   /\ stderr' = stderr \o << <<"Generating report", q.quarter, q.year>>,
                                             <<"Fetching invoices">> >>
                   /\ pc' = "fetching"
    /\ UNCHANGED <<records, overflow_checks, clock, all_invoices, starting_after, requests,
                   responses, next_invoice, processed, skipped, fetched, stdout>>

\* The request fetch_paid_invoices builds from its cursor.
list_request ==
    [created_gte |-> window[1].start, created_lte |-> window[1].end,
     starting_after |-> starting_after]

\* One turn of the loop of fetch_paid_invoices whose request is answered with a
\* page: up to PageLimit invoices after the cursor, and has_more.
fetch_page ==
    /\ pc = "fetching"
    /\ Len(requests) < MaxRequests
    /\ \E count \in 0..PageLimit, has_more \in BOOLEAN :
          LET listing == ListedFor(list_request)
              from == ListedAfter(listing, starting_after)
              data == SubSeq(listing, from + 1, from + count)
              all  == all_invoices \o data
          IN  /\ from + count <= Len(listing)
              /\ requests' = Append(requests, list_request)
              /\ responses' = Append(responses, Ok([data |-> data, has_more |-> has_more]))
              /\ all_invoices' = all
              /\ op' = "fetch_paid_invoices"
              /\ args' = <<window[1].start, window[1].end>>
              /\ IF ~has_more
                 THEN /\ pc' = "loop"
                      /\ result' = Ok(all)
                      /\ stderr' = Append(stderr, <<"Retrieved", Len(all)>>)
                      /\ UNCHANGED starting_after
                 ELSE /\ starting_after' = IF all # <<>> THEN Some(all[Len(all)].id)
                                                         ELSE starting_after
                      /\ result' = <<>>
                      /\ UNCHANGED <<pc, stderr>>
    /\ UNCHANGED <<records, overflow_checks, clock, today, window, next_invoice, processed,
                   skipped, fetched, stdout>>

\* One turn of that loop whose request fails: no answer, a non-success status or
\* a body that does not parse. main returns the error.
fetch_page_fails ==
    /\ pc = "fetching"
    /\ Len(requests) < MaxRequests
    /\ \E kind \in {"Failed to reach Stripe API", "Stripe API error",
                     "Failed to parse Stripe response"} :
          LET returned == fetch_failed(kind, all_invoices)
          IN  /\ requests' = Append(requests, list_request)
              /\ responses' = Append(responses, Err(kind))
              /\ op' = "fetch_paid_invoices"
              /\ args' = <<window[1].start, window[1].end>>
              /\ result' = returned
              /\ IF IsOk(returned)
                 THEN /\ pc' = "loop"
                      /\ stderr' = Append(stderr, <<"Retrieved", Len(all_invoices)>>)
                      /\ UNCHANGED all_invoices
                 ELSE /\ pc' = "failed"
                      /\ all_invoices' = <<>>
                      /\ UNCHANGED stderr
    /\ UNCHANGED <<records, overflow_checks, clock, today, window, starting_after,
                   next_invoice, processed, skipped, fetched, stdout>>

\* What fetch_customer, fetch_charge and fetch_balance_transaction can return.
CustomerOutcomes ==
    { Err("fetch_customer"), Ok(Customer(Some(Address(Some(Str("tx")))))), Ok(Customer(None)) }

ChargeOutcomes ==
    { Err("fetch_charge"),
      Ok(FetchedCharge(Some(Str("txn_1")), ChargeIn("ca")[1])),
      Ok(FetchedCharge(None, Charge(None))) }

BalanceTransactionOutcomes == { Err("fetch_balance_transaction"), Ok(BalanceTransaction(900)) }

\* let customer_id = match &invoice.customer { .. }: None where main skips.
customer_id_of(invoice) ==
    LET c == invoice.customer
    IN  IF c[1] = "String" /\ c[2] # <<>> THEN Some(c[2])
        ELSE IF c[1] = "Object" THEN c[2]
        ELSE None

\* One turn of `for invoice in invoices`, with what the lookups return.
handle_invoice ==
    /\ pc = "loop"
    /\ next_invoice <= Len(all_invoices)
    /\ next_invoice' = next_invoice + 1
    /\ LET listed  == all_invoices[next_invoice]
           invoice == listed.invoice
       IN  IF customer_id_of(invoice) = None
           THEN /\ stderr' = Append(stderr, <<"Skipping", listed.id, "No customer ID found">>)
                /\ skipped' = skipped + 1
                /\ fetched' = Some(NotFetched)
                /\ op' = "main"
                /\ args' = <<>>
                /\ result' = <<>>
                /\ UNCHANGED <<records, processed, pc>>
           ELSE \E customer \in CustomerOutcomes, charge \in ChargeOutcomes,
                   bt \in BalanceTransactionOutcomes :
                IF IsErr(customer)
                THEN /\ stderr' = Append(stderr, <<"Skipping", listed.id,
                                                   "Failed to fetch customer">>)
                     /\ skipped' = skipped + 1
                     /\ fetched' = Some([NotFetched EXCEPT !.customer = "failed"])
                     /\ op' = "main"
                     /\ args' = <<>>
                     /\ result' = <<>>
                     /\ UNCHANGED <<records, processed, pc>>
                ELSE LET charge_asked == listed.charge # None /\ listed.charge[1][1] = "String"
                         charge_ok == charge_asked /\ IsOk(charge)
                         bt_asked  == charge_ok /\ charge[2].balance_transaction # None
                         bt_ok     == bt_asked /\ IsOk(bt)
                         charge_data == IF charge_ok THEN Some(charge[2].charge) ELSE None
                         balance_transaction == IF bt_ok THEN Some(bt[2]) ELSE None
                         extracted == extract_record(invoice, Some(customer[2]), charge_data,
                                                     balance_transaction, overflow_checks)
                         outcome(asked, ok) ==
                             IF ~asked THEN "none" ELSE IF ok THEN "ok" ELSE "failed"
                     IN  /\ fetched' = Some([customer |-> "ok",
                                             charge |-> outcome(charge_asked, charge_ok),
                                             balance_transaction |-> outcome(bt_asked, bt_ok)])
                         /\ records' = records_after(records, extracted)
                         /\ op' = "process_invoice_with_customer"
                         /\ args' = <<invoice, Some(customer[2]), charge_data,
                                      balance_transaction>>
                         /\ result' = IF IsOk(extracted) THEN Ok(<<>>) ELSE extracted
                         /\ IF extracted[1] = "Panic"
                            THEN /\ pc' = "panicked"
                                 /\ stderr' = Append(stderr, <<"panicked">>)
                                 /\ UNCHANGED <<processed, skipped>>
                            ELSE IF IsOk(extracted)
                            THEN /\ processed' = processed + 1
                                 /\ UNCHANGED <<skipped, stderr, pc>>
                            ELSE /\ skipped' = skipped + 1
                                 /\ stderr' = Append(stderr, <<"Skipping", listed.id,
                                                               extracted[2]>>)
                                 /\ UNCHANGED <<processed, pc>>
    /\ UNCHANGED <<overflow_checks, clock, today, window, all_invoices, starting_after,
                   requests, responses, stdout>>

\* After the loop: the summary line, sort_records, format_as_tsv and println!.
finish ==
    /\ pc = "loop"
    /\ next_invoice > Len(all_invoices)
    /\ stderr' = Append(stderr, <<"Processed", processed, skipped>>)
    /\ records' = sorted_records(records)
    /\ op' = "format_as_tsv"
    /\ args' = <<>>
    /\ result' = format_as_tsv(sorted_records(records))
    /\ stdout' = Append(stdout, format_as_tsv(sorted_records(records)))
    /\ pc' = "done"
    /\ UNCHANGED <<overflow_checks, clock, today, window, all_invoices, starting_after,
                   requests, responses, next_invoice, processed, skipped, fetched>>

----------------------------------------------------------------------------
(* Specifications                                                          *)

Process(calls) ==
    \E c \in calls : process_invoice_with_customer(c[1], c[2], c[3], c[4])

Next == Process(Calls) \/ sort_records \/ calculate_totals \/ format_records

Spec == Init /\ [][Next]_vars

NextState == Process(StateCalls) \/ sort_records \/ calculate_totals \/ format_records

SpecState == Init /\ [][NextState]_vars

NextSort == Process(SortCalls) \/ sort_records \/ calculate_totals \/ format_records

SpecSort == Init /\ [][NextSort]_vars

NextName == Process(NameCalls) \/ sort_records \/ calculate_totals \/ format_records

SpecName == Init /\ [][NextName]_vars

\* Runs that process invoices until the first record is collected.
NextLines ==
    \/ (records = <<>> /\ Process(LineCalls))
    \/ sort_records \/ calculate_totals \/ format_records

SpecLines == Init /\ [][NextLines]_vars

NextRun == main_start \/ fetch_page \/ fetch_page_fails \/ handle_invoice \/ finish

SpecRun == Init /\ [][NextRun]_vars

NextQuarter == get_previous_quarter \/ Tick

SpecQuarter == Init /\ [][NextQuarter]_vars

----------------------------------------------------------------------------
(* Claims                                                                  *)

Processed == op = "process_invoice_with_customer"

LastRecord == records[Len(records)]

\* The state string a source carries, None when any level of it is absent.
CustomerState(customer) ==
    IF customer = None \/ customer[1].address = None THEN None
    ELSE customer[1].address[1].state

ChargeState(charge) ==
    IF charge = None \/ charge[1].billing_details = None
       \/ charge[1].billing_details[1].address = None
    THEN None
    ELSE charge[1].billing_details[1].address[1].state

InvoiceState(invoice) ==
    IF invoice.customer_address = None THEN None ELSE invoice.customer_address[1].state

Usable(state) == state # None /\ state # Some(<<>>)

\* The uppercase form of each state string among the inputs.
Uppercased(state) ==
    CASE state = Str("tx") -> Str("TX")
      [] state = Str("Ca") -> Str("CA")
      [] state = Str("ca") -> Str("CA")
      [] state = Str("Texas") -> Str("TEXAS")

\* C1: state resolution is a strict three-level priority. After every call of
\* process_invoice_with_customer, whatever the shapes of the three sources, the new
\* record's state is the uppercased value of the first non-empty source in the order
\* customer, charge, invoice, and the call fails with the missing-state error when
\* all three are absent or empty.
C1_StatePriority ==
    Processed =>
        LET sources == << CustomerState(args[2]), ChargeState(args[3]), InvoiceState(args[1]) >>
            usable  == { i \in 1..3 : Usable(sources[i]) }
        IN  IF usable = {}
            THEN result = Err("MissingBillingState")
            ELSE LET first == CHOOSE i \in usable : \A j \in usable : i <= j
                 IN  /\ IsOk(result)
                     /\ LastRecord.state = Uppercased(sources[first][1])

\* C1 witness: customer and charge both carry a state and the customer's has won.
C1_Witness ==
    /\ Processed
    /\ Usable(CustomerState(args[2]))
    /\ Usable(ChargeState(args[3]))
    /\ Usable(InvoiceState(args[1]))
    /\ IsOk(result)
    /\ LastRecord.state = Str("TX")

IsUpperLetter(c) == Ord(c) \in 65..90

\* C7: every record in the collection has a state of exactly two uppercase letters.
C7_TwoLetterState ==
    \A i \in 1..Len(records) :
        /\ Len(records[i].state) = 2
        /\ \A k \in 1..Len(records[i].state) : IsUpperLetter(records[i].state[k])

\* C2: a failed extraction never changes the collection and a successful call
\* appends exactly one record: on every call of process_invoice_with_customer, if it
\* returns an error the records are what they were before the call; if it returns Ok
\* the records are the old ones followed by one new record, and the date, the
\* customer identity and the billing state of the invoice all resolved.
C2_FailureAddsNothing ==
    [][ (op' = "process_invoice_with_customer") =>
            /\ IsErr(result') => records' = records
            /\ IsOk(result') =>
                /\ Len(records') = Len(records) + 1
                /\ SubSeq(records', 1, Len(records)) = records
                /\ IsOk(format_invoice_date(
                       IF args'[1].paid_at # None THEN args'[1].paid_at[1]
                       ELSE args'[1].created))
                /\ IsOk(extract_customer_name(args'[1]))
                /\ Usable(CustomerState(args'[2])) \/ Usable(ChargeState(args'[3]))
                       \/ Usable(InvoiceState(args'[1]))
      ]_vars

\* C2 witness: a call has failed on a generator that already holds records.
C2_Witness ==
    /\ Processed
    /\ IsErr(result)
    /\ Len(records) >= 2

\* C5: every record in the collection satisfies total = licenses + tax.
C5_TotalIsLicensesPlusTax ==
    \A i \in 1..Len(records) :
        records[i].total = records[i].licenses + records[i].tax

\* C5 witness: the collection has been sorted and holds a record with a tax.
C5_Witness ==
    /\ op = "sort_records"
    /\ Len(records) >= 2
    /\ \E i \in 1..Len(records) : records[i].tax # 0 /\ records[i].licenses # 0

\* C6: every record in the collection has licenses, tax, total and fees >= 0.
C6_MoneyNonNegative ==
    \A i \in 1..Len(records) :
        /\ records[i].licenses >= 0
        /\ records[i].tax >= 0
        /\ records[i].total >= 0
        /\ records[i].fees >= 0

RECURSIVE ParseDigits(_, _)
ParseDigits(digits, acc) ==
    IF digits = <<>> THEN acc
    ELSE ParseDigits(Tail(digits), 10 * acc + (Ord(Head(digits)) - 48))

\* The calendar date <<year, month, day>> that a date field MM/DD/YYYY names.
DateOf(date) ==
    << ParseDigits(SubSeq(date, 7, Len(date)), 0),
       ParseDigits(SubSeq(date, 1, 2), 0),
       ParseDigits(SubSeq(date, 4, 5), 0) >>

\* d is the same day as e or an earlier one.
NotAfter(d, e) ==
    \/ d[1] < e[1]
    \/ d[1] = e[1] /\ d[2] < e[2]
    \/ d[1] = e[1] /\ d[2] = e[2] /\ d[3] <= e[3]

\* (state, date, customer) of a is not greater than that of b, the date compared
\* as a calendar date.
KeyNotAfter(a, b) ==
    \/ str_cmp(a.state, b.state) = Less
    \/ /\ a.state = b.state
       /\ DateOf(a.date) # DateOf(b.date)
       /\ NotAfter(DateOf(a.date), DateOf(b.date))
    \/ /\ a.state = b.state
       /\ DateOf(a.date) = DateOf(b.date)
       /\ str_cmp(a.customer, b.customer) # Greater

\* C3: after sort_records, every pair of adjacent records is non-decreasing in
\* (state, date, customer), the date compared chronologically.
C3_SortedChronologically ==
    op = "sort_records" =>
        \A i \in 1..(Len(records) - 1) : KeyNotAfter(records[i], records[i + 1])

\* The records in another arrival order.
Rearranged(recs, p) == [i \in 1..Len(recs) |-> recs[p[i]]]

\* C4: the order sort_records produces does not depend on the arrival order: the
\* sorted collection is what sorting any other arrival order of the same records
\* gives.
C4_OrderIndependentOfArrival ==
    op = "sort_records" =>
        \A p \in Permutations(1..Len(records)) :
            sorted_records(Rearranged(records, p)) = records

Formatted == op = "format_as_tsv"

\* Reading the output text back: the kind of a line and what it carries.
IsHeader(line) ==
    /\ Len(line) = 1
    /\ Len(line[1]) >= 12
    /\ SubSeq(line[1], 1, 6) = Str("===== ")
    /\ SubSeq(line[1], Len(line[1]) - 5, Len(line[1])) = Str(" =====")

HeaderState(line) == SubSeq(line[1], 7, Len(line[1]) - 6)

IsSubtotal(line) == Len(line) = 7 /\ line[1] = Str("Subtotal")

IsGrandTotal(line) == Len(line) = 7 /\ line[1] = Str("GRAND TOTAL")

IsRow(line) ==
    Len(line) = 7 /\ line[1] \notin {Str("Date"), Str("Subtotal"), Str("GRAND TOTAL")}

Headers(out) == { i \in 1..Len(out) : IsHeader(out[i]) }

\* The lines of the section whose header is line i: up to the next header, or to
\* the grand total when there is none.
SectionEnd(out, i) ==
    IF \E j \in Headers(out) : j > i
    THEN (CHOOSE j \in Headers(out) : j > i /\ \A k \in Headers(out) : k > i => j <= k) - 1
    ELSE Len(out) - 1

Section(out, i) == (i + 1)..SectionEnd(out, i)

\* The minor units a two-decimal field stands for.
Cents(field) ==
    LET negative == field # <<>> /\ Head(field) = "-"
        digits   == IF negative THEN Tail(field) ELSE field
        n        == Len(digits)
        value    == 100 * ParseDigits(SubSeq(digits, 1, n - 3), 0)
                        + ParseDigits(SubSeq(digits, n - 1, n), 0)
    IN  IF negative THEN -value ELSE value

\* The four amounts of a subtotal or grand-total line.
Amounts(line) == Totals(Cents(line[4]), Cents(line[5]), Cents(line[6]), Cents(line[7]))

\* The exact sum of a field over the records at the given positions.
RECURSIVE SumAt(_, _)
SumAt(positions, field) ==
    IF positions = {} THEN 0
    ELSE LET i == CHOOSE i \in positions : TRUE
         IN  records[i][field] + SumAt(positions \ {i}, field)

ExactSums(positions) ==
    Totals(SumAt(positions, "licenses"), SumAt(positions, "tax"),
           SumAt(positions, "total"), SumAt(positions, "fees"))

PositionsOf(state) == { i \in 1..Len(records) : records[i].state = state }

\* C8: whatever the order of the records given to format_as_tsv, the output has one
\* section per distinct state, the headers are in strictly ascending order of state
\* code (so no state has two sections), and the data rows between a header and the
\* next are the rows of the records of that header's state.
C8_SectionsAscending ==
    Formatted =>
        /\ { HeaderState(result[i]) : i \in Headers(result) }
               = { records[k].state : k \in 1..Len(records) }
        /\ \A i, j \in Headers(result) :
               i < j => str_cmp(HeaderState(result[i]), HeaderState(result[j])) = Less
        /\ \A i \in Headers(result) :
               SelectSeq(SubSeq(result, i + 1, SectionEnd(result, i)), IsRow)
                   = row_lines(SelectSeq(records,
                                         LAMBDA r : r.state = HeaderState(result[i])))
        /\ \A j \in 1..Len(result) :
               IsRow(result[j]) => \E i \in Headers(result) : j \in Section(result, i)

\* C8 witness: records of two states were formatted in an order that is not sorted.
C8_Witness ==
    /\ Formatted
    /\ Len(records) = 3
    /\ records[1].state = Str("TX")
    /\ records[2].state = Str("CA")
    /\ records[3].state = Str("TX")

\* C9: the subtotal row of every state section carries, for licenses, tax, total and
\* fees, the exact integer sum of that field over exactly the records of that state.
C9_SubtotalIsSectionSum ==
    Formatted =>
        \A i \in Headers(result) :
            /\ Cardinality({ j \in Section(result, i) : IsSubtotal(result[j]) }) = 1
            /\ \A j \in Section(result, i) :
                   IsSubtotal(result[j]) =>
                       Amounts(result[j]) = ExactSums(PositionsOf(HeaderState(result[i])))

\* C9 witness: a section of two records with different amounts next to another section.
C9_Witness ==
    /\ Formatted
    /\ Cardinality(Headers(result)) = 2
    /\ \E i, k \in 1..Len(records) :
           /\ i # k
           /\ records[i].state = records[k].state
           /\ records[i].licenses # records[k].licenses

RECURSIVE SumOfSubtotals(_, _)
SumOfSubtotals(out, acc) ==
    IF out = <<>> THEN acc
    ELSE SumOfSubtotals(Tail(out),
             IF IsSubtotal(Head(out))
             THEN LET a == Amounts(Head(out))
                  IN  Totals(acc.licenses + a.licenses, acc.tax + a.tax,
                             acc.total + a.total, acc.fees + a.fees)
             ELSE acc)

\* C10: the output has one grand-total row, the last line; it equals, field by
\* field, the sum of the subtotal rows of the output and the tuple calculate_totals
\* returns for the same collection, which is the exact sum of each field over all
\* records.
C10_GrandTotalIsSumOfAll ==
    /\ Formatted =>
           /\ { j \in 1..Len(result) : IsGrandTotal(result[j]) } = { Len(result) }
           /\ Amounts(result[Len(result)]) = SumOfSubtotals(result, Totals(0, 0, 0, 0))
           /\ Amounts(result[Len(result)]) = totals_of(records)
           /\ Amounts(result[Len(result)]) = ExactSums(1..Len(records))
    /\ op = "calculate_totals" => result = ExactSums(1..Len(records))

\* C10 witness: three records in two states have been formatted.
C10_Witness ==
    /\ Formatted
    /\ Len(records) = 3
    /\ Cardinality(Headers(result)) = 2
    /\ Amounts(result[Len(result)]).fees # 0

\* C11: with no records, format_as_tsv emits no state section and exactly one
\* grand-total row whose four amounts are zero, and calculate_totals returns
\* (0, 0, 0, 0).
C11_EmptyReport ==
    /\ (Formatted /\ records = <<>>) =>
           result = << << Str("GRAND TOTAL"), <<>>, <<>>,
                          Str("0.00"), Str("0.00"), Str("0.00"), Str("0.00") >> >>
    /\ (op = "calculate_totals" /\ records = <<>>) => result = Totals(0, 0, 0, 0)

\* C11 witness: an empty collection has been formatted.
C11_Witness == Formatted /\ records = <<>>

\* The date the last call of get_previous_quarter read from the clock.
ReferenceDate == today[1]

Date(y, m, d) == [year |-> y, month |-> m, day |-> d]

CeilThirds(m) == (m + 2) \div 3

\* The last day of the months that end a quarter.
LastDayOfMonth(m) == CASE m = 3 -> 31 [] m = 6 -> 30 [] m = 9 -> 30 [] m = 12 -> 31

\* The previous quarter as the specification words it.
ExpectedQuarter(date) ==
    LET before == CeilThirds(date.month) - 1
        q == IF before > 0 THEN before ELSE 4
        y == IF before > 0 THEN date.year ELSE date.year - 1
    IN  [start_date |-> Date(y, 3 * q - 2, 1),
         end_date |-> Date(y, 3 * q, LastDayOfMonth(3 * q)),
         quarter |-> q, year |-> y]

\* C12: for every reference date the result is quarter ceil(month / 3) - 1 of the
\* same year, or quarter 4 of the year before when that is 0; it starts on day 1
\* of month 3q - 2 and ends on the last day of month 3q; from 2026-01-10 it is
\* 2025-10-01 .. 2025-12-31, quarter 4 of 2025.
C12_PreviousQuarter ==
    op = "get_previous_quarter" =>
        /\ result = ExpectedQuarter(ReferenceDate)
        /\ ReferenceDate = Date(2026, 1, 10) =>
               result = [start_date |-> Date(2025, 10, 1), end_date |-> Date(2025, 12, 31),
                         quarter |-> 4, year |-> 2025]

\* C12 witness: the quarter has been computed on 2026-01-10.
C12_Witness == op = "get_previous_quarter" /\ today = Some(Date(2026, 1, 10))

\* C18: the previous quarter depends on the arguments of the call only: two
\* calls with the same arguments return the same result, whatever the clock.
C18_SameArgumentsSameResult ==
    [][(op = "get_previous_quarter" /\ op' = "get_previous_quarter" /\ args' = args)
          => result' = result]_vars

\* The display name the specification prescribes for an invoice, None when the invoice
\* carries none. A bare identifier string is a non-empty JSON string; an
\* object's id is present when the object has a string member "id".
PrescribedName(invoice) ==
    LET name == invoice.customer_name
        ref  == invoice.customer
    IN  CASE name # None /\ name # Some(<<>>) -> name
          [] (name = None \/ name = Some(<<>>)) /\ ref[1] = "String" ->
                 IF ref[2] = <<>> THEN None ELSE Some(ref[2])
          [] (name = None \/ name = Some(<<>>)) /\ ref[1] = "Object" ->
                 IF ref[2] # None THEN ref[2] ELSE ref[3]
          [] OTHER -> None

\* C15: the customer of a record is the invoice's non-empty denormalized name,
\* else the bare identifier string, else the embedded object's id, else its
\* name; extraction fails with the missing-identity error exactly when the
\* invoice carries none of them.
C15_CustomerName ==
    Processed =>
        LET prescribed == PrescribedName(args[1])
        IN  /\ prescribed # None => IsOk(result) /\ LastRecord.customer = prescribed[1]
            /\ prescribed = None <=> result = Err("MissingCustomerIdentity")

\* C15 witness: the name came from the last fallback, the object's name.
C15_Witness ==
    /\ Processed /\ IsOk(result)
    /\ args[1].customer_name = Some(<<>>)
    /\ args[1].customer = JsonObject(None, Some(Str("Bob")))
    /\ LastRecord.customer = Str("Bob")

SubscriptionLines(lines) == SelectSeq(lines, LAMBDA l : l.line_type = "subscription")

QuantityOf(line) == IF line.quantity = None THEN 0 ELSE line.quantity[1]

\* The sum of f over a sequence, from its last element down.
RECURSIVE SumOver(_, _)
SumOver(f(_), seq) ==
    IF seq = <<>> THEN 0 ELSE SumOver(f, SubSeq(seq, 1, Len(seq) - 1)) + f(seq[Len(seq)])

HighHalf(line) == QuantityOf(line) \div U16

LowHalf(line) == QuantityOf(line) % U16

\* users = the integer sum of the quantities, the sum taken in 16-bit halves:
\* sum = U16 * high + low, with high negative when the sum is.
IsIntegerSum(users, lines) ==
    LET high == SumOver(HighHalf, lines)
        low  == SumOver(LowHalf, lines)
    IN  users.lo = low % U16 /\ users.hi = high + (low \div U16)

\* C16: the users of a record equal the integer sum of quantity (0 when absent)
\* over the subscription lines of the invoice, negative quantities and sums
\* beyond the u32 range included.
C16_UsersIsIntegerSum ==
    (Processed /\ IsOk(result)) => IsIntegerSum(LastRecord.users, SubscriptionLines(args[1].lines))

AmountOf(line) == line.amount

TaxOf(invoice) == IF invoice.tax = None THEN 0 ELSE invoice.tax[1]

\* The invoice without its lines of another type than "subscription".
WithoutOtherLines(invoice) == [invoice EXCEPT !.lines = SubscriptionLines(invoice.lines)]

\* C17: licenses is the sum of amount over the subscription lines; lines of
\* another type change nothing in the record; without a subscription line
\* licenses = 0, users = 0 and total = tax.
C17_LicensesFromSubscriptions ==
    (Processed /\ IsOk(result)) =>
        LET invoice == args[1]
            subs    == SubscriptionLines(invoice.lines)
        IN  /\ LastRecord.licenses = SumOver(AmountOf, subs)
            /\ LastRecord.total = SumOver(AmountOf, subs) + TaxOf(invoice)
            /\ Ok(LastRecord) = extract_record(WithoutOtherLines(invoice), args[2], args[3],
                                               args[4], overflow_checks)
            /\ subs = <<>> =>
                   /\ LastRecord.licenses = 0
                   /\ LastRecord.users = U32(0, 0)
                   /\ LastRecord.total = TaxOf(invoice)

\* C17 witness: a record of an invoice with a line of another type between two
\* subscription lines, and a record of an invoice with no subscription line.
C17_Witness ==
    /\ Processed /\ IsOk(result)
    /\ \/ /\ Len(args[1].lines) = 3
          /\ args[1].lines[2].line_type = "invoiceitem"
          /\ LastRecord.licenses = 19500
       \/ /\ args[1].lines = <<LineItem("invoiceitem", 700, Some(1))>>
          /\ LastRecord.total = 4000

\* main has just dealt with an invoice taken from the list.
Handled == fetched # None /\ pc \in {"loop", "panicked"}

\* C13: a lookup that fails never makes main skip the invoice or stop: the
\* extractor is called with the entity absent, and a failed charge or balance
\* transaction lookup gives fees = 0.
C13_FailedLookupIsAbsence ==
    Handled =>
        /\ fetched[1].customer = "failed" => Processed /\ args[2] = None
        /\ fetched[1].charge = "failed" =>
               /\ Processed /\ args[3] = None /\ args[4] = None
               /\ IsOk(result) => LastRecord.fees = 0
        /\ fetched[1].balance_transaction = "failed" =>
               /\ Processed /\ args[4] = None
               /\ IsOk(result) => LastRecord.fees = 0

\* A request of the list has failed.
ListFailed == \E i \in 1..Len(responses) : IsErr(responses[i])

\* C14: once a request of the invoice list has failed, on whatever page, main
\* has ended with the error and stays there: nothing is ever written to standard
\* output, no invoice is taken from the list and no record is made.
C14_ListFailureIsFatal ==
    /\ [](ListFailed =>
            /\ pc = "failed" /\ IsErr(result)
            /\ stdout = <<>> /\ records = <<>>
            /\ next_invoice = 1 /\ processed = 0 /\ skipped = 0)
    /\ [][ListFailed => UNCHANGED vars]_vars

\* C14 witness: the second request failed after a first page of two invoices.
C14_Witness ==
    /\ Len(responses) = 2
    /\ IsOk(responses[1]) /\ Len(responses[1][2].data) = 2
    /\ IsErr(responses[2])
    /\ pc = "failed"

\* C19: every invoice taken from the list is counted as processed or as
\* skipped, the generator holds one record for each processed invoice, and when
\* the summary is printed the two counts add up to the invoices fetched; no
\* invoice stops the loop.
C19_EveryInvoiceCounted ==
    /\ pc # "panicked"
    /\ processed + skipped = next_invoice - 1
    /\ Len(records) = processed
    /\ pc = "done" => processed + skipped = Len(all_invoices)

\* The id of the last invoice of a page.
LastId(page) == page.data[Len(page.data)].id

\* C20: after a page with has_more = true the next request carries the id of
\* the last invoice of that page as starting_after and no request is sent
\* twice, also when the page is empty; after a page with has_more = false no
\* request follows and all invoices of all pages are returned.
C20_PaginationProgress ==
    /\ \A i \in 1..Len(responses) :
          IsOk(responses[i]) =>
              IF responses[i][2].has_more
              THEN i < Len(requests) =>
                       /\ responses[i][2].data # <<>> =>
                              requests[i + 1].starting_after = Some(LastId(responses[i][2]))
                       /\ requests[i + 1] # requests[i]
              ELSE i = Len(requests) /\ pc # "fetching"
    /\ \A i, j \in 1..Len(requests) : i # j => requests[i] # requests[j]

============================================================================
